---------------------------- MODULE Spec2Model ----------------------------
(***************************************************************************)
(* The `add` command of the CLI (packages/cli/src/commands/add.ts): the    *)
(* run of add.action, the file installer writeFiles, the import rewriter   *)
(* fixImports and the configuration creation path promptForConfig.         *)
(*                                                                         *)
(* Texts are sequences of one-character strings, so that the rewriter is   *)
(* modelled by what String.prototype.replace / replaceAll do.              *)
(***************************************************************************)
EXTENDS Integers, Sequences, FiniteSets, TLC

(***************************************************************************)
(* Bounds of the model.                                                    *)
(***************************************************************************)
\* longest list of positional component arguments
MaxArgs == 2
\* most destination files that exist before the run
MaxExisting == 1
\* most segments a rewriter input text is built from
MaxSegs == 3
\* most dependency declarations a catalog holds in all
MaxDepEdges == 2
\* most I/O failures (mkdir, read, write) the environment injects into one run
MaxFaults == 1

(***************************************************************************)
(* Text helpers: String.prototype.indexOf / replace / replaceAll with a    *)
(* string pattern (no `$` occurs in any replacement of the model, so the   *)
(* replacement is inserted literally).                                     *)
(***************************************************************************)
MatchAt(text, pat, i) ==
    /\ i >= 1
    /\ i + Len(pat) - 1 <= Len(text)
    /\ SubSeq(text, i, i + Len(pat) - 1) = pat

\* 1-based index of the first occurrence of pat in text at or after from; 0 if none
RECURSIVE IndexFrom(_, _, _)
IndexFrom(text, pat, from) ==
    IF from + Len(pat) - 1 > Len(text) THEN 0
    ELSE IF MatchAt(text, pat, from) THEN from
    ELSE IndexFrom(text, pat, from + 1)

\* number of (possibly overlapping) positions at which pat occurs in text
Occurrences(text, pat) ==
    Cardinality({i \in 1..Len(text) : MatchAt(text, pat, i)})

Contains(text, pat) == IndexFrom(text, pat, 1) # 0

\* text.replace(pat, rep): the first occurrence only
ReplaceFirst(text, pat, rep) ==
    LET i == IndexFrom(text, pat, 1)
    IN  IF i = 0 THEN text
        ELSE SubSeq(text, 1, i - 1) \o rep \o SubSeq(text, i + Len(pat), Len(text))

\* text.replaceAll(pat, rep): every occurrence, scanning left to right, the
\* scan resuming after each replaced occurrence (the replacement is not rescanned)
RECURSIVE ReplaceAllFrom(_, _, _, _)
ReplaceAllFrom(text, pat, rep, from) ==
    LET i == IndexFrom(text, pat, from)
    IN  IF i = 0 THEN text
        ELSE ReplaceAllFrom(
                 SubSeq(text, 1, i - 1) \o rep \o SubSeq(text, i + Len(pat), Len(text)),
                 pat, rep, i + Len(rep))

ReplaceAll(text, pat, rep) == ReplaceAllFrom(text, pat, rep, 1)

(***************************************************************************)
(* The rewriter's literals (add.ts:220-225).                               *)
(***************************************************************************)
PatIcons == <<".", ".", "/", "I", "c", "o", "n", "s">>
PatTypography == <<".", "/", "t", "y", "p", "o", "g", "r", "a", "p", "h", "y">>
PatText == <<".", "/", "t", "e", "x", "t">>
PatComponents == <<".", ".", "/", ".", ".", "/", "c", "o", "m", "p", "o", "n", "e", "n", "t", "s">>
PatLib == <<".", ".", "/", ".", ".", "/", "l", "i", "b">>
PatRnr == <<"@", "r", "n", "r">>

SufIcons == <<"/", "I", "c", "o", "n", "s">>
SufTypography == <<"/", "u", "i", "/", "t", "y", "p", "o", "g", "r", "a", "p", "h", "y">>
SufText == <<"/", "u", "i", "/", "t", "e", "x", "t">>
SufPrimitives == <<"/", "p", "r", "i", "m", "i", "t", "i", "v", "e", "s">>

\* the patterns replaced at their first occurrence (.replace) and at every
\* occurrence (.replaceAll)
FirstOnlyPatterns == {PatIcons, PatTypography, PatText}
EveryPatterns == {PatComponents, PatLib, PatRnr}
AllPatterns == FirstOnlyPatterns \cup EveryPatterns

\* a plausible slip: the last directory-style pattern replaced with .replace
fixImports_rnrFirstOnly(rawfile, componentsAlias, libAlias) ==
    LET s1 == ReplaceFirst(rawfile, PatIcons, componentsAlias \o SufIcons)
        s2 == ReplaceFirst(s1, PatTypography, componentsAlias \o SufTypography)
        s3 == ReplaceFirst(s2, PatText, componentsAlias \o SufText)
        s4 == ReplaceAll(s3, PatComponents, componentsAlias)
        s5 == ReplaceAll(s4, PatLib, libAlias)
    IN  ReplaceFirst(s5, PatRnr, componentsAlias \o SufPrimitives)

\* a plausible slip: the lib pattern replaced with .replace
fixImports_libFirstOnly(rawfile, componentsAlias, libAlias) ==
    LET s1 == ReplaceFirst(rawfile, PatIcons, componentsAlias \o SufIcons)
        s2 == ReplaceFirst(s1, PatTypography, componentsAlias \o SufTypography)
        s3 == ReplaceFirst(s2, PatText, componentsAlias \o SufText)
        s4 == ReplaceAll(s3, PatComponents, componentsAlias)
        s5 == ReplaceFirst(s4, PatLib, libAlias)
    IN  ReplaceAll(s5, PatRnr, componentsAlias \o SufPrimitives)

fixImports(rawfile, componentsAlias, libAlias) ==
    LET s1 == ReplaceFirst(rawfile, PatIcons, componentsAlias \o SufIcons)
        s2 == ReplaceFirst(s1, PatTypography, componentsAlias \o SufTypography)
        s3 == ReplaceFirst(s2, PatText, componentsAlias \o SufText)
        s4 == ReplaceAll(s3, PatComponents, componentsAlias)
        s5 == ReplaceAll(s4, PatLib, libAlias)
    IN  ReplaceAll(s5, PatRnr, componentsAlias \o SufPrimitives)


(***************************************************************************)
(* Paths are sequences of segments.  path.join normalises `..` segments.   *)
(***************************************************************************)
RECURSIVE Normalize(_, _)
Normalize(segs, acc) ==
    IF segs = <<>> THEN acc
    ELSE IF Head(segs) = ".." /\ acc # <<>>
         THEN Normalize(Tail(segs), SubSeq(acc, 1, Len(acc) - 1))
         ELSE Normalize(Tail(segs), Append(acc, Head(segs)))

PathJoin(base, rel) == Normalize(rel, base)

\* a directory and all its ancestors: what fs.mkdir(dir, {recursive: true}) ensures
Ancestors(dir) == {SubSeq(dir, 1, k) : k \in 1..Len(dir)}

IsPrefix(p, q) == Len(p) <= Len(q) /\ SubSeq(q, 1, Len(p)) = p

Cwd == <<"cwd">>
ConfigPath == <<"cwd", "components.json">>

(***************************************************************************)
(* The component catalog (COMPONENTS of ../items/components) and the       *)
(* source files its entries are copied from.                               *)
(***************************************************************************)
CatalogOrder == <<"dialog", "icons", "text">>
CatalogNames == {CatalogOrder[i] : i \in 1..Len(CatalogOrder)}
\* a name no catalog entry has
Bogus == "bogus"
Names == CatalogNames \cup {Bogus}

FileEntry(from, folder, file) ==
    [from |-> from, to |-> [folder |-> folder, file |-> file]]

FlatPaths(list) ==
    [isArray |-> TRUE, list |-> list, universal |-> <<>>, nativeOnly |-> <<>>]

KeyedPaths(universal, nativeOnly) ==
    [isArray |-> FALSE, list |-> <<>>, universal |-> universal, nativeOnly |-> nativeOnly]

ComponentType(name) == IF name = "icons" THEN "internal" ELSE "ui"

ComponentPaths(name) ==
    CASE name = "dialog" ->
            KeyedPaths(<<FileEntry("dialog.universal", <<"ui">>, "dialog.tsx")>>,
                       <<FileEntry("dialog.native", <<"ui">>, "dialog.tsx")>>)
      [] name = "icons" ->
            FlatPaths(<<FileEntry("icons.index", <<"Icons">>, "index.tsx"),
                        FileEntry("icons.types", <<"Icons">>, "types.ts")>>)
      [] OTHER ->
            FlatPaths(<<FileEntry("text", <<"ui">>, "text.tsx")>>)

Catalog(deps) ==
    [n \in CatalogNames |->
        [name |-> n, type |-> ComponentType(n), paths |-> ComponentPaths(n),
         dependencies |-> deps[n]]]

\* the dependency declarations of the catalog the installer runs are checked on
BaseDeps == [n \in CatalogNames |-> IF n = "dialog" THEN <<"icons">> ELSE <<>>]

\* the text fs.readFile returns for a source path
SourceText(from) ==
    CASE from = "dialog.universal" -> PatIcons \o <<";">> \o PatRnr \o <<";">> \o PatRnr
      [] from = "dialog.native" -> PatIcons \o <<";">> \o PatLib
      [] from = "icons.index" -> PatComponents \o <<";">> \o PatText
      [] from = "icons.types" -> <<"t">>
      [] OTHER -> PatTypography \o <<";">> \o PatLib

\* what a destination file that exists before the run holds
OldText == <<"o", "l", "d">>

(***************************************************************************)
(* Configuration (get-config: getConfig, rawConfigSchema,                  *)
(* resolveConfigPaths, DEFAULT_COMPONENTS, DEFAULT_LIB).                   *)
(***************************************************************************)
DEFAULT_COMPONENTS == <<"~", "/", "c", "o", "m", "p", "o", "n", "e", "n", "t", "s">>
DEFAULT_LIB == <<"~", "/", "l", "i", "b">>

AliasChoices ==
    { [components |-> DEFAULT_COMPONENTS, lib |-> DEFAULT_LIB],
      [components |-> <<"#", "c">>, lib |-> <<"#", "l">>] }

PlatformModes == {"universal", "native-only"}

\* `config` before getConfig / promptForConfig has produced one
NullConfig ==
    [platforms |-> "null", aliases |-> [components |-> <<>>, lib |-> <<>>],
     resolvedPaths |-> [components |-> <<>>]]

RawConfig(platforms, aliases) ==
    [platforms |-> platforms, aliases |-> aliases, resolvedPaths |-> [components |-> <<>>]]

\* rawConfigSchema.parse succeeds
rawConfigSchema(raw) == raw.platforms \in PlatformModes

\* the directory an alias for components stands for, relative to cwd: the
\* default alias stands for components, any other for src/components
AliasTarget(alias) ==
    IF alias = DEFAULT_COMPONENTS THEN <<"components">> ELSE <<"src", "components">>

\* resolveConfigPaths(cwd, config): the aliases resolved to absolute paths under cwd
resolveConfigPaths(cwd, raw) ==
    [raw EXCEPT !.resolvedPaths = [components |-> cwd \o AliasTarget(raw.aliases.components)]]

\* the persisted components.json: absent, present but of the wrong shape, or valid
AbsentFile == [state |-> "absent", raw |-> NullConfig]
InvalidFile == [state |-> "invalid", raw |-> NullConfig]
ValidFile(raw) == [state |-> "valid", raw |-> raw]

(***************************************************************************)
(* The resolver (../items: getAllComponentsToWrite): the requested         *)
(* components and, transitively, their dependencies, each once, in order   *)
(* of first visit; an unknown name fails the resolution.                   *)
(***************************************************************************)
InSeq(x, s) == \E i \in 1..Len(s) : s[i] = x

\* a slip: the guard stops the recursion on a component already included
\* but lists the component once more
RECURSIVE Visit_revisits(_, _, _)
Visit_revisits(catalog, todo, acc) ==
    IF todo = <<>> THEN [ok |-> TRUE, list |-> acc]
    ELSE LET n == Head(todo)
         IN  IF n \notin DOMAIN catalog THEN [ok |-> FALSE, list |-> <<>>]
             ELSE IF InSeq(n, acc) THEN Visit_revisits(catalog, Tail(todo), Append(acc, n))
             ELSE Visit_revisits(catalog, catalog[n].dependencies \o Tail(todo), Append(acc, n))

RECURSIVE Visit(_, _, _)
Visit(catalog, todo, acc) ==
    IF todo = <<>> THEN [ok |-> TRUE, list |-> acc]
    ELSE LET n == Head(todo)
         IN  IF n \notin DOMAIN catalog THEN [ok |-> FALSE, list |-> <<>>]
             ELSE IF InSeq(n, acc) THEN Visit(catalog, Tail(todo), acc)
             ELSE Visit(catalog, catalog[n].dependencies \o Tail(todo), Append(acc, n))

getAllComponentsToWrite(catalog, selected) == Visit(catalog, selected, <<>>)

\* handleError(error): logs; a read or write error of one file may or may not
\* end the process, any other error ends it with exit code 1
handleError(kind) == IF kind = "file" THEN {"exit", "return"} ELSE {"exit"}


(***************************************************************************)
(* State.                                                                  *)
(***************************************************************************)
VARIABLES
    \* the environment: the file system and the operator's command line
    cwdExists,          \* existsSync(cwd)
    opts,               \* options: [components, overwrite]
    COMPONENTS,         \* the catalog
    configFile,         \* components.json at cwd
    dirs,               \* the directories that exist
    files,              \* destination path -> [exists, content]
    \* add.action
    pc,                 \* position in the run
    exitCode,           \* the process exit code, once pc is "exited" or "done"
    config,             \* let config
    selectedComponents, \* let selectedComponents
    componentsToWrite,  \* let componentsToWrite (names of the catalog entries)
    ci,                 \* index of `comp` in componentsToWrite
    fi,                 \* index of `compPath` in paths
    \* history
    ended,              \* why the run ended
    report,             \* names listed by the "Invalid component(s)" message
    reported,           \* whether that message was logged
    configPrompts,      \* how often promptForConfig was entered
    proceed,            \* the answer to the confirmation of promptForConfig: "none", "yes", "no"
    resolution,         \* how getAllComponentsToWrite ended: "none", "ok", "invalid", "threw"
    answer,             \* the overwrite prompt of the current entry: "none", "asked", "yes", "no"
    fs0,                \* the file system when the run began
    snap,               \* the file system when the current entry began
    log,                \* one record per file entry processed
    touched,            \* paths created or written by the run
    faults,             \* I/O failures injected so far
    \* the rewriter applied on its own
    rwPc, rwText, rwAlias, rwOnce, rwTwice

envVars == <<cwdExists, opts, COMPONENTS>>
fsVars == <<configFile, dirs, files>>
runVars == <<pc, exitCode, config, selectedComponents, componentsToWrite, ci, fi>>
histVars == <<ended, report, reported, resolution, configPrompts, proceed, answer, fs0, snap, log, touched, faults>>
rwVars == <<rwPc, rwText, rwAlias, rwOnce, rwTwice>>
vars == <<envVars, fsVars, runVars, histVars, rwVars>>

Fs == [configFile |-> configFile, dirs |-> dirs, files |-> files]

(***************************************************************************)
(* The values the run reads off its state.                                 *)
(***************************************************************************)
ComponentsRoot == Cwd \o AliasTarget(DEFAULT_COMPONENTS)

\* the directories resolvedPaths.components can be
ComponentsRoots == {Cwd \o AliasTarget(al.components) : al \in AliasChoices}

AllEntries ==
    UNION {{ComponentPaths(n).list[i] : i \in 1..Len(ComponentPaths(n).list)}
           \cup {ComponentPaths(n).universal[i] : i \in 1..Len(ComponentPaths(n).universal)}
           \cup {ComponentPaths(n).nativeOnly[i] : i \in 1..Len(ComponentPaths(n).nativeOnly)}
           : n \in CatalogNames}

\* a slip: the default components directory where the code has the
\* configuration's resolved path
TargetDir_defaultRoot(cfg, entry) == PathJoin(ComponentsRoot, entry.to.folder)

\* path.join(config.resolvedPaths.components, compPath.to.folder)
TargetDir(cfg, entry) == PathJoin(cfg.resolvedPaths.components, entry.to.folder)
\* path.join(targetDir, compPath.to.file)
TargetFile(cfg, entry) == PathJoin(TargetDir(cfg, entry), <<entry.to.file>>)

AllDest == {PathJoin(PathJoin(ComponentsRoot, e.to.folder), <<e.to.file>>) : e \in AllEntries}
\* every path a destination file can have
Destinations ==
    {PathJoin(PathJoin(r, e.to.folder), <<e.to.file>>) : r \in ComponentsRoots, e \in AllEntries}

AllDirs == {Cwd} \cup UNION {Ancestors(PathJoin(ComponentsRoot, e.to.folder)) : e \in AllEntries}

NoFile == [exists |-> FALSE, content |-> <<>>]
FileOf(text) == [exists |-> TRUE, content |-> text]

\* the paths argument of writeFiles: the flat list, or the variant of the
\* configuration's platform mode
\* a slip: the universal variant whatever the platform mode
PathsFor_alwaysUniversal(comp, cfg) ==
    IF comp.paths.isArray THEN comp.paths.list ELSE comp.paths.universal

PathsFor(comp, cfg) ==
    IF comp.paths.isArray THEN comp.paths.list
    ELSE IF cfg.platforms = "universal" THEN comp.paths.universal
    ELSE comp.paths.nativeOnly

CurComp == COMPONENTS[componentsToWrite[ci]]
CurPaths == PathsFor(CurComp, config)
CurEntry == CurPaths[fi]
CurDir == TargetDir(config, CurEntry)
CurFile == TargetFile(config, CurEntry)

\* the record the history keeps of the entry that has just been processed
LogRecord(ans, outcome, after) ==
    [comp |-> CurComp.name, idx |-> fi, from |-> CurEntry.from, dest |-> CurFile,
     dir |-> CurDir, prompted |-> ans # "none", answer |-> ans, outcome |-> outcome,
     before |-> snap, after |-> after]

\* the loops of writeFiles and add.action move on: the next entry of the
\* component, or the next component
Advance ==
    IF fi < Len(CurPaths)
    THEN /\ fi' = fi + 1
         /\ pc' = "entry"
         /\ ci' = ci
    ELSE /\ fi' = 0
         /\ pc' = "loop"
         /\ ci' = ci + 1

\* process.exit(code)
Exit(code, why) ==
    /\ pc' = "exited"
    /\ exitCode' = code
    /\ ended' = why


(***************************************************************************)
(* Initial states.                                                         *)
(***************************************************************************)
SeqsUpTo(S, n) == UNION {[1..k -> S] : k \in 0..n}

Parent(path) == SubSeq(path, 1, Len(path) - 1)

\* a set of directories a file system can hold together with the files ex
DirsOk(D, ex) ==
    /\ Cwd \in D
    /\ \A d \in D : Ancestors(d) \subseteq D
    /\ \A f \in ex : Parent(f) \in D

DefaultAliases == [components |-> DEFAULT_COMPONENTS, lib |-> DEFAULT_LIB]

PersistedChoices ==
    {AbsentFile, InvalidFile} \cup {ValidFile(RawConfig(p, DefaultAliases)) : p \in PlatformModes}

\* the positional arguments of the installer's runs: none (the multiselect
\* prompt decides), one component, one with a dependency, two, an unknown
\* name alone and after a valid one
InstallRequests ==
    {<<>>, <<"text">>, <<"dialog">>, <<"icons", "text">>, <<Bogus>>, <<"text", Bogus>>}

RunStart ==
    /\ pc = "start"
    /\ exitCode = 0
    /\ config = NullConfig
    /\ selectedComponents = <<>>
    /\ componentsToWrite = <<>>
    /\ ci = 0
    /\ fi = 0
    /\ ended = ""
    /\ report = <<>>
    /\ reported = FALSE
    /\ configPrompts = 0
    /\ proceed = "none"
    /\ resolution = "none"
    /\ answer = "none"
    /\ fs0 = Fs
    /\ snap = Fs
    /\ log = <<>>
    /\ touched = {}
    /\ faults = 0

RwOff ==
    /\ rwPc = "off"
    /\ rwText = <<>>
    /\ rwAlias = [components |-> <<>>, lib |-> <<>>]
    /\ rwOnce = <<>>
    /\ rwTwice = <<>>

\* the installer's runs: one catalog, every file system within the bounds
Init ==
    /\ COMPONENTS = Catalog(BaseDeps)
    /\ cwdExists \in BOOLEAN
    /\ opts \in [components : InstallRequests, overwrite : BOOLEAN]
    /\ IF cwdExists
       THEN /\ configFile \in PersistedChoices
            /\ \E ex \in SUBSET AllDest :
                 /\ Cardinality(ex) <= MaxExisting
                 /\ files = [d \in Destinations |-> IF d \in ex THEN FileOf(OldText) ELSE NoFile]
                 /\ dirs \in {D \in SUBSET AllDirs : DirsOk(D, ex)}
       ELSE /\ configFile = AbsentFile
            /\ files = [d \in Destinations |-> NoFile]
            /\ dirs = {}
    /\ RunStart
    /\ RwOff

(***************************************************************************)
(* add.action (add.ts:50-166).                                             *)
(***************************************************************************)
\* a slip: the process.exit(1) of add.ts:61 is missing, the run goes on after
\* the error message
CheckCwd_noExit ==
    /\ pc = "start"
    /\ pc' = "getConfig"
    /\ UNCHANGED <<exitCode, ended>>
    /\ UNCHANGED <<envVars, fsVars, config, selectedComponents, componentsToWrite, ci, fi>>
    /\ UNCHANGED <<report, reported, resolution, configPrompts, answer, fs0, proceed, snap, log, touched, faults>>
    /\ UNCHANGED rwVars

\* add.ts:57-62
CheckCwd ==
    /\ pc = "start"
    /\ IF ~cwdExists
       THEN Exit(1, "cwdMissing")
       ELSE /\ pc' = "getConfig"
            /\ UNCHANGED <<exitCode, ended>>
    /\ UNCHANGED <<envVars, fsVars, config, selectedComponents, componentsToWrite, ci, fi>>
    /\ UNCHANGED <<report, reported, resolution, configPrompts, answer, fs0, proceed, snap, log, touched, faults>>
    /\ UNCHANGED rwVars

\* a slip: the creation path is entered whether or not getConfig found a
\* configuration
GetConfig_promptsAlways ==
    /\ pc = "getConfig"
    /\ CASE configFile.state = "invalid" ->
              /\ "exit" \in handleError("validation")
              /\ Exit(1, "configInvalid")
              /\ UNCHANGED config
         [] OTHER ->
              /\ pc' = "promptForConfig"
              /\ UNCHANGED <<config, exitCode, ended>>
    /\ UNCHANGED <<envVars, fsVars, selectedComponents, componentsToWrite, ci, fi>>
    /\ UNCHANGED <<report, reported, resolution, configPrompts, answer, fs0, proceed, snap, log, touched, faults>>
    /\ UNCHANGED rwVars

\* add.ts:64-68: getConfig returns null without a components.json, throws on
\* one of the wrong shape (caught at add.ts:163), and otherwise returns the
\* configuration with its paths resolved
GetConfig ==
    /\ pc = "getConfig"
    /\ CASE configFile.state = "absent" ->
              /\ pc' = "promptForConfig"
              /\ UNCHANGED <<config, exitCode, ended>>
         [] configFile.state = "invalid" ->
              /\ "exit" \in handleError("validation")
              /\ Exit(1, "configInvalid")
              /\ UNCHANGED config
         [] OTHER ->
              /\ config' = resolveConfigPaths(Cwd, configFile.raw)
              /\ pc' = "select"
              /\ UNCHANGED <<exitCode, ended>>
    /\ UNCHANGED <<envVars, fsVars, selectedComponents, componentsToWrite, ci, fi>>
    /\ UNCHANGED <<report, reported, resolution, configPrompts, answer, fs0, proceed, snap, log, touched, faults>>
    /\ UNCHANGED rwVars

\* add.ts:228-261: the three questions and rawConfigSchema.parse; a cancelled
\* platform question leaves platforms undefined
PromptForConfig ==
    /\ pc = "promptForConfig"
    /\ configPrompts' = configPrompts + 1
    /\ \E platforms \in PlatformModes \cup {"undefined"}, aliases \in AliasChoices :
         IF rawConfigSchema(RawConfig(platforms, aliases))
         THEN /\ config' = RawConfig(platforms, aliases)
              /\ pc' = "confirm"
              /\ UNCHANGED <<exitCode, ended>>
         ELSE /\ "exit" \in handleError("validation")
              /\ Exit(1, "configInvalid")
              /\ UNCHANGED config
    /\ UNCHANGED <<envVars, fsVars, selectedComponents, componentsToWrite, ci, fi>>
    /\ UNCHANGED <<report, reported, resolution, answer, fs0, proceed, snap, log, touched, faults>>
    /\ UNCHANGED rwVars

\* a slip: components.json is written whatever the operator answers
ConfirmConfig_writesAnyway ==
    /\ pc = "confirm"
    /\ \E yes \in BOOLEAN :
         /\ proceed' = IF yes THEN "yes" ELSE "no"
         /\ configFile' = ValidFile(config)
         /\ touched' = touched \cup {ConfigPath}
    /\ config' = resolveConfigPaths(Cwd, config)
    /\ pc' = "select"
    /\ UNCHANGED <<envVars, dirs, files, exitCode, selectedComponents, componentsToWrite, ci, fi>>
    /\ UNCHANGED <<ended, report, reported, resolution, configPrompts, answer, fs0, snap, log, faults>>
    /\ UNCHANGED rwVars

\* add.ts:263-279: the confirmation, the write of components.json when the
\* operator proceeds, and resolveConfigPaths
ConfirmConfig ==
    /\ pc = "confirm"
    /\ \E yes \in BOOLEAN :
         IF yes
         THEN /\ proceed' = "yes"
              /\ configFile' = ValidFile(config)
              /\ touched' = touched \cup {ConfigPath}
         ELSE /\ proceed' = "no"
              /\ UNCHANGED <<configFile, touched>>
    /\ config' = resolveConfigPaths(Cwd, config)
    /\ pc' = "select"
    /\ UNCHANGED <<envVars, dirs, files, exitCode, selectedComponents, componentsToWrite, ci, fi>>
    /\ UNCHANGED <<ended, report, reported, resolution, configPrompts, answer, fs0, snap, log, faults>>
    /\ UNCHANGED rwVars

\* add.ts:275 rejects after the operator has confirmed: the error reaches the
\* catch of add.ts:163; the file is left as it was or truncated
ConfigWriteFails ==
    /\ pc = "confirm"
    /\ faults < MaxFaults
    /\ faults' = faults + 1
    /\ proceed' = "yes"
    /\ \E truncated \in BOOLEAN :
         IF truncated
         THEN /\ configFile' = InvalidFile
              /\ touched' = touched \cup {ConfigPath}
         ELSE UNCHANGED <<configFile, touched>>
    /\ "exit" \in handleError("io")
    /\ Exit(1, "ioError")
    /\ UNCHANGED <<envVars, dirs, files, config, selectedComponents, componentsToWrite, ci, fi>>
    /\ UNCHANGED <<report, reported, resolution, configPrompts, answer, fs0, snap, log>>
    /\ UNCHANGED rwVars

\* the answers of the multiselect prompt: the ui components, any of them, in
\* catalog order (a cancelled prompt answers undefined, which has no length either)
MultiselectAnswers ==
    {SelectSeq(CatalogOrder, LAMBDA n : n \in S) :
        S \in SUBSET {n \in CatalogNames : COMPONENTS[n].type = "ui"}}

\* add.ts:70-90
SelectComponents ==
    /\ pc = "select"
    /\ \E chosen \in (IF opts.components # <<>> THEN {opts.components} ELSE MultiselectAnswers) :
         /\ selectedComponents' = chosen
         /\ IF chosen = <<>>
            THEN Exit(0, "noSelection")
            ELSE /\ pc' = "resolve"
                 /\ UNCHANGED <<exitCode, ended>>
    /\ UNCHANGED <<envVars, fsVars, config, componentsToWrite, ci, fi>>
    /\ UNCHANGED <<report, reported, resolution, configPrompts, answer, fs0, proceed, snap, log, touched, faults>>
    /\ UNCHANGED rwVars

\* a slip: the selected names are installed as they are, without the
\* resolver's expansion
Resolve_noExpand ==
    /\ pc = "resolve"
    /\ LET r == getAllComponentsToWrite(COMPONENTS, selectedComponents)
       IN  IF r.ok
           THEN /\ componentsToWrite' = selectedComponents
                /\ resolution' = "ok"
                /\ pc' = "loop"
                /\ ci' = 1
                /\ UNCHANGED <<exitCode, ended, report, reported>>
           ELSE /\ report' = SelectSeq(selectedComponents,
                                       LAMBDA c : c \notin DOMAIN COMPONENTS)
                /\ reported' = TRUE
                /\ resolution' = "invalid"
                /\ Exit(1, "invalidComponent")
                /\ UNCHANGED <<componentsToWrite, ci>>
    /\ UNCHANGED <<envVars, fsVars, config, selectedComponents, fi>>
    /\ UNCHANGED <<configPrompts, answer, fs0, proceed, snap, log, touched, faults>>
    /\ UNCHANGED rwVars

\* add.ts:94-105: the resolver returns, or throws the invalid-component error
Resolve ==
    /\ pc = "resolve"
    /\ LET r == getAllComponentsToWrite(COMPONENTS, selectedComponents)
       IN  IF r.ok
           THEN /\ componentsToWrite' = r.list
                /\ resolution' = "ok"
                /\ pc' = "loop"
                /\ ci' = 1
                /\ UNCHANGED <<exitCode, ended, report, reported>>
           ELSE /\ report' = SelectSeq(selectedComponents,
                                       LAMBDA c : c \notin DOMAIN COMPONENTS)
                /\ reported' = TRUE
                /\ resolution' = "invalid"
                /\ Exit(1, "invalidComponent")
                /\ UNCHANGED <<componentsToWrite, ci>>
    /\ UNCHANGED <<envVars, fsVars, config, selectedComponents, fi>>
    /\ UNCHANGED <<configPrompts, answer, fs0, proceed, snap, log, touched, faults>>
    /\ UNCHANGED rwVars

\* a slip: every error of the resolver ends the run, the process.exit(1) of
\* add.ts:104 stands after the if
ResolveThrows_exits ==
    /\ pc = "resolve"
    /\ faults < MaxFaults
    /\ faults' = faults + 1
    /\ resolution' = "threw"
    /\ Exit(1, "ioError")
    /\ UNCHANGED <<envVars, fsVars, config, selectedComponents, componentsToWrite, ci, fi>>
    /\ UNCHANGED <<report, reported, configPrompts, answer, fs0, proceed, snap, log, touched>>
    /\ UNCHANGED rwVars

\* add.ts:97-107: the resolver throws anything else; it is logged and the run
\* goes on with the empty componentsToWrite
ResolveThrows ==
    /\ pc = "resolve"
    /\ faults < MaxFaults
    /\ faults' = faults + 1
    /\ resolution' = "threw"
    /\ componentsToWrite' = <<>>
    /\ pc' = "loop"
    /\ ci' = 1
    /\ UNCHANGED <<envVars, fsVars, exitCode, config, selectedComponents, fi>>
    /\ UNCHANGED <<ended, report, reported, configPrompts, answer, fs0, proceed, snap, log, touched>>
    /\ UNCHANGED rwVars

\* a slip: the entries of a component are taken from the last one
NextComponent_lastEntryFirst ==
    /\ pc = "loop"
    /\ ci <= Len(componentsToWrite)
    /\ IF CurPaths = <<>>
       THEN /\ ci' = ci + 1
            /\ UNCHANGED <<pc, fi>>
       ELSE /\ pc' = "entry"
            /\ fi' = Len(CurPaths)
            /\ ci' = ci
    /\ UNCHANGED <<envVars, fsVars, exitCode, config, selectedComponents, componentsToWrite>>
    /\ UNCHANGED histVars
    /\ UNCHANGED rwVars

\* add.ts:109-122: the next component of the list and its paths
NextComponent ==
    /\ pc = "loop"
    /\ ci <= Len(componentsToWrite)
    /\ IF CurPaths = <<>>
       THEN /\ ci' = ci + 1
            /\ UNCHANGED <<pc, fi>>
       ELSE /\ pc' = "entry"
            /\ fi' = 1
            /\ ci' = ci
    /\ UNCHANGED <<envVars, fsVars, exitCode, config, selectedComponents, componentsToWrite>>
    /\ UNCHANGED histVars
    /\ UNCHANGED rwVars

\* add.ts:162
Done ==
    /\ pc = "loop"
    /\ ci > Len(componentsToWrite)
    /\ pc' = "done"
    /\ exitCode' = 0
    /\ ended' = "done"
    /\ UNCHANGED <<envVars, fsVars, config, selectedComponents, componentsToWrite, ci, fi>>
    /\ UNCHANGED <<report, reported, resolution, configPrompts, answer, fs0, proceed, snap, log, touched, faults>>
    /\ UNCHANGED rwVars


(***************************************************************************)
(* writeFiles (add.ts:168-216), one file entry at a time.                  *)
(***************************************************************************)
\* a slip in the conflict check: the prompt is issued whenever --overwrite is
\* not given, whether or not the destination exists
BeginEntry_promptsNew ==
    /\ pc = "entry"
    /\ snap' = Fs
    /\ IF CurDir \in dirs
       THEN UNCHANGED <<dirs, touched>>
       ELSE /\ dirs' = dirs \cup Ancestors(CurDir)
            /\ touched' = touched \cup (Ancestors(CurDir) \ dirs)
    /\ IF ~opts.overwrite
       THEN /\ pc' = "prompt"
            /\ answer' = "asked"
       ELSE /\ pc' = "copy"
            /\ answer' = "none"
    /\ UNCHANGED <<envVars, configFile, files, exitCode, config, selectedComponents>>
    /\ UNCHANGED <<componentsToWrite, ci, fi>>
    /\ UNCHANGED <<ended, report, reported, resolution, configPrompts, fs0, proceed, log, faults>>
    /\ UNCHANGED rwVars

\* a slip: the conflict check is missing, every entry is copied unasked
BeginEntry_neverPrompts ==
    /\ pc = "entry"
    /\ snap' = Fs
    /\ IF CurDir \in dirs
       THEN UNCHANGED <<dirs, touched>>
       ELSE /\ dirs' = dirs \cup Ancestors(CurDir)
            /\ touched' = touched \cup (Ancestors(CurDir) \ dirs)
    /\ pc' = "copy"
    /\ answer' = "none"
    /\ UNCHANGED <<envVars, configFile, files, exitCode, config, selectedComponents>>
    /\ UNCHANGED <<componentsToWrite, ci, fi>>
    /\ UNCHANGED <<ended, report, reported, resolution, configPrompts, fs0, proceed, log, faults>>
    /\ UNCHANGED rwVars

\* add.ts:181-186: the destination directory is created when absent, then
\* the conflict check decides between the prompt and the copy
BeginEntry ==
    /\ pc = "entry"
    /\ snap' = Fs
    /\ IF CurDir \in dirs
       THEN UNCHANGED <<dirs, touched>>
       ELSE /\ dirs' = dirs \cup Ancestors(CurDir)
            /\ touched' = touched \cup (Ancestors(CurDir) \ dirs)
    /\ IF ~opts.overwrite /\ files[CurFile].exists
       THEN /\ pc' = "prompt"
            /\ answer' = "asked"
       ELSE /\ pc' = "copy"
            /\ answer' = "none"
    /\ UNCHANGED <<envVars, configFile, files, exitCode, config, selectedComponents>>
    /\ UNCHANGED <<componentsToWrite, ci, fi>>
    /\ UNCHANGED <<ended, report, reported, resolution, configPrompts, fs0, proceed, log, faults>>
    /\ UNCHANGED rwVars

\* add.ts:183 rejects: some of the missing ancestors may have been created;
\* the error reaches the catch of add.ts:163
MkdirFails ==
    /\ pc = "entry"
    /\ CurDir \notin dirs
    /\ faults < MaxFaults
    /\ faults' = faults + 1
    /\ snap' = Fs
    /\ answer' = "none"
    /\ \E k \in 0..(Len(CurDir) - 1) :
         LET made == dirs \cup Ancestors(SubSeq(CurDir, 1, k))
         IN  /\ dirs' = made
             /\ touched' = touched \cup (made \ dirs)
             /\ log' = Append(log, [LogRecord("none", "mkdirFailed", [Fs EXCEPT !.dirs = made])
                                       EXCEPT !.before = Fs])
    /\ "exit" \in handleError("io")
    /\ Exit(1, "ioError")
    /\ UNCHANGED <<envVars, configFile, files, config, selectedComponents>>
    /\ UNCHANGED <<componentsToWrite, ci, fi>>
    /\ UNCHANGED <<report, reported, resolution, configPrompts, fs0, proceed>>
    /\ UNCHANGED rwVars

\* a slip: the `continue` of add.ts:201 is missing, the declined entry is
\* copied all the same
DeclineOverwrite_fallsThrough ==
    /\ pc = "prompt"
    /\ answer' = "no"
    /\ pc' = "copy"
    /\ UNCHANGED <<envVars, fsVars, exitCode, config, selectedComponents, componentsToWrite, ci, fi>>
    /\ UNCHANGED <<ended, report, reported, resolution, configPrompts, fs0, proceed, snap, log, touched, faults>>
    /\ UNCHANGED rwVars

\* a slip: `return` where add.ts:201 has `continue`, the rest of the
\* component's entries is skipped with the declined one
DeclineOverwrite_returns ==
    /\ pc = "prompt"
    /\ answer' = "no"
    /\ log' = Append(log, LogRecord("no", "skipped", Fs))
    /\ fi' = 0
    /\ pc' = "loop"
    /\ ci' = ci + 1
    /\ UNCHANGED <<envVars, fsVars, exitCode, config, selectedComponents, componentsToWrite>>
    /\ UNCHANGED <<ended, report, reported, resolution, configPrompts, fs0, proceed, snap, touched, faults>>
    /\ UNCHANGED rwVars

\* add.ts:188-202: the operator answers no (or cancels the prompt)
DeclineOverwrite ==
    /\ pc = "prompt"
    /\ answer' = "no"
    /\ log' = Append(log, LogRecord("no", "skipped", Fs))
    /\ Advance
    /\ UNCHANGED <<envVars, fsVars, exitCode, config, selectedComponents, componentsToWrite>>
    /\ UNCHANGED <<ended, report, reported, resolution, configPrompts, fs0, proceed, snap, touched, faults>>
    /\ UNCHANGED rwVars

\* add.ts:188-203: the operator answers yes
AcceptOverwrite ==
    /\ pc = "prompt"
    /\ answer' = "yes"
    /\ pc' = "copy"
    /\ UNCHANGED <<envVars, fsVars, exitCode, config, selectedComponents, componentsToWrite, ci, fi>>
    /\ UNCHANGED <<ended, report, reported, resolution, configPrompts, fs0, proceed, snap, log, touched, faults>>
    /\ UNCHANGED rwVars

\* a slip: the content is written as read, fixImports is not applied
CopyFile_raw ==
    /\ pc = "copy"
    /\ CurDir \in dirs
    /\ LET content == SourceText(CurEntry.from)
           written == [files EXCEPT ![CurFile] = FileOf(content)]
       IN  /\ files' = written
           /\ log' = Append(log, LogRecord(answer, "written", [Fs EXCEPT !.files = written]))
    /\ touched' = touched \cup {CurFile}
    /\ Advance
    /\ UNCHANGED <<envVars, configFile, dirs, exitCode, config, selectedComponents>>
    /\ UNCHANGED componentsToWrite
    /\ UNCHANGED <<ended, report, reported, resolution, configPrompts, answer, fs0, proceed, snap, faults>>
    /\ UNCHANGED rwVars

\* add.ts:205-211: the source is read, rewritten and written
CopyFile ==
    /\ pc = "copy"
    /\ CurDir \in dirs
    /\ LET content == SourceText(CurEntry.from)
           written == [files EXCEPT ![CurFile] =
                          FileOf(fixImports(content, config.aliases.components,
                                            config.aliases.lib))]
       IN  /\ files' = written
           /\ log' = Append(log, LogRecord(answer, "written", [Fs EXCEPT !.files = written]))
    /\ touched' = touched \cup {CurFile}
    /\ Advance
    /\ UNCHANGED <<envVars, configFile, dirs, exitCode, config, selectedComponents>>
    /\ UNCHANGED componentsToWrite
    /\ UNCHANGED <<ended, report, reported, resolution, configPrompts, answer, fs0, proceed, snap, faults>>
    /\ UNCHANGED rwVars

\* a slip: a failed read undoes what the run has written so far
ReadFails_rollsBack ==
    /\ pc = "copy"
    /\ faults < MaxFaults
    /\ faults' = faults + 1
    /\ LET undone == [d \in DOMAIN files |-> IF d \in touched THEN fs0.files[d] ELSE files[d]]
       IN  /\ files' = undone
           /\ log' = Append(log, LogRecord(answer, "readFailed", [Fs EXCEPT !.files = undone]))
    /\ \E outcome \in handleError("file") :
         IF outcome = "exit"
         THEN /\ Exit(1, "ioError")
              /\ UNCHANGED <<ci, fi>>
         ELSE /\ Advance
              /\ UNCHANGED <<exitCode, ended>>
    /\ UNCHANGED <<envVars, configFile, dirs, config, selectedComponents, componentsToWrite>>
    /\ UNCHANGED <<report, reported, resolution, configPrompts, answer, fs0, proceed, snap, touched>>
    /\ UNCHANGED rwVars

\* add.ts:207 rejects and add.ts:213 handles it: nothing is written
ReadFails ==
    /\ pc = "copy"
    /\ faults < MaxFaults
    /\ faults' = faults + 1
    /\ log' = Append(log, LogRecord(answer, "readFailed", Fs))
    /\ \E outcome \in handleError("file") :
         IF outcome = "exit"
         THEN /\ Exit(1, "ioError")
              /\ UNCHANGED <<ci, fi>>
         ELSE /\ Advance
              /\ UNCHANGED <<exitCode, ended>>
    /\ UNCHANGED <<envVars, fsVars, config, selectedComponents, componentsToWrite>>
    /\ UNCHANGED <<report, reported, resolution, configPrompts, answer, fs0, proceed, snap, touched>>
    /\ UNCHANGED rwVars

\* add.ts:208 rejects and add.ts:213 handles it: the destination is left as it
\* was, or (opened and truncated before the failure) empty
WriteFails ==
    /\ pc = "copy"
    /\ faults < MaxFaults
    /\ faults' = faults + 1
    /\ \E truncated \in {t \in BOOLEAN : t => CurDir \in dirs} :
         LET left == IF truncated THEN [files EXCEPT ![CurFile] = FileOf(<<>>)] ELSE files
         IN  /\ files' = left
             /\ touched' = IF truncated THEN touched \cup {CurFile} ELSE touched
             /\ log' = Append(log, LogRecord(answer, "writeFailed", [Fs EXCEPT !.files = left]))
    /\ \E outcome \in handleError("file") :
         IF outcome = "exit"
         THEN /\ Exit(1, "ioError")
              /\ UNCHANGED <<ci, fi>>
         ELSE /\ Advance
              /\ UNCHANGED <<exitCode, ended>>
    /\ UNCHANGED <<envVars, configFile, dirs, config, selectedComponents, componentsToWrite>>
    /\ UNCHANGED <<report, reported, resolution, configPrompts, answer, fs0, proceed, snap>>
    /\ UNCHANGED rwVars

Next ==
    \/ CheckCwd
    \/ GetConfig
    \/ PromptForConfig
    \/ ConfirmConfig
    \/ ConfigWriteFails
    \/ SelectComponents
    \/ Resolve
    \/ ResolveThrows
    \/ NextComponent
    \/ Done
    \/ BeginEntry
    \/ MkdirFails
    \/ DeclineOverwrite
    \/ AcceptOverwrite
    \/ CopyFile
    \/ ReadFails
    \/ WriteFails

Spec == Init /\ [][Next]_vars


(***************************************************************************)
(* The resolver's runs: every catalog within the bounds (with cycles and   *)
(* with dependencies on names the catalog does not hold), every request,   *)
(* in a configured project that holds no component yet, with --overwrite.  *)
(* The steps of the configuration creation path and of the overwrite       *)
(* prompt are never enabled in these runs, and the file system fails no    *)
(* operation (the I/O failures are those of Spec).                         *)
(***************************************************************************)
NameOrder == CatalogOrder \o <<Bogus>>

DepLists == {SelectSeq(NameOrder, LAMBDA n : n \in S) : S \in SUBSET Names}

RECURSIVE SumLen(_, _)
SumLen(f, S) ==
    IF S = {} THEN 0
    ELSE LET n == CHOOSE x \in S : TRUE IN Len(f[n]) + SumLen(f, S \ {n})

DepsChoices == {d \in [CatalogNames -> DepLists] : SumLen(d, CatalogNames) <= MaxDepEdges}

InitResolve ==
    /\ \E deps \in DepsChoices : COMPONENTS = Catalog(deps)
    /\ cwdExists = TRUE
    /\ opts \in [components : SeqsUpTo(Names, MaxArgs), overwrite : {TRUE}]
    /\ configFile = ValidFile(RawConfig("universal", DefaultAliases))
    /\ files = [d \in Destinations |-> NoFile]
    /\ dirs = {Cwd}
    /\ RunStart
    /\ RwOff

NextResolve ==
    \/ CheckCwd
    \/ GetConfig
    \/ SelectComponents
    \/ Resolve
    \/ ResolveThrows
    \/ NextComponent
    \/ Done
    \/ BeginEntry
    \/ CopyFile

SpecResolve == InitResolve /\ [][NextResolve]_vars

(***************************************************************************)
(* The rewriter on its own: fixImports applied once and once more to every *)
(* text within the bounds, under every alias pair of RewriteAliases.       *)
(***************************************************************************)
Segments ==
    AllPatterns \cup {<<";">>, <<".">>, <<".", ".", "/">>}

RECURSIVE Concat(_)
Concat(segs) == IF segs = <<>> THEN <<>> ELSE Head(segs) \o Concat(Tail(segs))

Texts == {Concat(segs) : segs \in SeqsUpTo(Segments, MaxSegs)}

RewriteAliases ==
    AliasChoices \cup {[components |-> DEFAULT_COMPONENTS, lib |-> <<"l", "i", "b">>]}

RunOff ==
    /\ COMPONENTS = Catalog(BaseDeps)
    /\ cwdExists = TRUE
    /\ opts = [components |-> <<>>, overwrite |-> FALSE]
    /\ configFile = AbsentFile
    /\ files = [d \in Destinations |-> NoFile]
    /\ dirs = {Cwd}
    /\ pc = "off"
    /\ exitCode = 0
    /\ config = NullConfig
    /\ selectedComponents = <<>>
    /\ componentsToWrite = <<>>
    /\ ci = 0
    /\ fi = 0
    /\ ended = ""
    /\ report = <<>>
    /\ reported = FALSE
    /\ configPrompts = 0
    /\ proceed = "none"
    /\ resolution = "none"
    /\ answer = "none"
    /\ fs0 = Fs
    /\ snap = Fs
    /\ log = <<>>
    /\ touched = {}
    /\ faults = 0

InitRewrite ==
    /\ RunOff
    /\ rwPc = "in"
    /\ rwText \in Texts
    /\ rwAlias \in RewriteAliases
    /\ rwOnce = <<>>
    /\ rwTwice = <<>>

RewriteOnce ==
    /\ rwPc = "in"
    /\ rwOnce' = fixImports(rwText, rwAlias.components, rwAlias.lib)
    /\ rwPc' = "once"
    /\ UNCHANGED <<envVars, fsVars, runVars, histVars, rwText, rwAlias, rwTwice>>

RewriteTwice ==
    /\ rwPc = "once"
    /\ rwTwice' = fixImports(rwOnce, rwAlias.components, rwAlias.lib)
    /\ rwPc' = "twice"
    /\ UNCHANGED <<envVars, fsVars, runVars, histVars, rwText, rwAlias, rwOnce>>

NextRewrite ==
    \/ RewriteOnce
    \/ RewriteTwice

SpecRewrite == InitRewrite /\ [][NextRewrite]_vars

(***************************************************************************)
(* Properties.                                                             *)
(***************************************************************************)
LogIdx == 1..Len(log)

IoFailures == {"mkdirFailed", "readFailed", "writeFailed"}

\* what a successful copy of the entry of a log record leaves at its destination
RewrittenSources ==
    [from \in {e.from : e \in AllEntries} |->
        [al \in AliasChoices |-> fixImports(SourceText(from), al.components, al.lib)]]

Rewritten(rec) == FileOf(RewrittenSources[rec.from][config.aliases])

\* the file entries of a list of components, in installation order
RECURSIVE EntriesOf(_, _)
EntriesOf(list, cfg) ==
    IF list = <<>> THEN <<>>
    ELSE [k \in 1..Len(PathsFor(COMPONENTS[Head(list)], cfg)) |-> <<Head(list), k>>]
            \o EntriesOf(Tail(list), cfg)

ExpectedEntries == EntriesOf(componentsToWrite, config)

\* the names a request reaches through the dependency declarations
RECURSIVE Reach(_)
Reach(S) ==
    LET more == S \cup UNION {{COMPONENTS[n].dependencies[k] :
                                   k \in 1..Len(COMPONENTS[n].dependencies)} :
                              n \in S \cap DOMAIN COMPONENTS}
    IN  IF more = S THEN S ELSE Reach(more)

Requested == {selectedComponents[i] : i \in 1..Len(selectedComponents)}

AbsentNames == Reach(Requested) \ DOMAIN COMPONENTS

PatternChars == UNION {{p[i] : i \in 1..Len(p)} : p \in AllPatterns}

\* an alias that neither holds nor completes one of the patterns
SafeAlias(a) ==
    /\ a # <<>>
    /\ a[1] \notin PatternChars
    /\ \A i \in 1..Len(a) : a[i] \notin {".", "@"}

SafeAliases(al) == SafeAlias(al.components) /\ SafeAlias(al.lib)

AfterFirst(n) == IF n = 0 THEN 0 ELSE n - 1

\* C1: an entry whose destination exists, processed without --overwrite and
\* declined by the operator, leaves the whole file system (the destination's
\* content, every other file, every directory, components.json) as it was
\* when the entry began.
DeclineLeavesFileSystem ==
    /\ \A i \in LogIdx :
         (~opts.overwrite /\ log[i].before.files[log[i].dest].exists /\ log[i].answer = "no")
            => log[i].after = log[i].before
    /\ (answer = "no" /\ pc \in {"entry", "loop"}) => Fs = snap

DeclinedEntryKept ==
    /\ ~opts.overwrite
    /\ \E i \in LogIdx :
         /\ log[i].answer = "no"
         /\ log[i].before.files[log[i].dest] = FileOf(OldText)
         /\ files[log[i].dest] = FileOf(OldText)

ValidationAbortsBeforeMutation ==
    ended \in {"invalidComponent", "configInvalid"} => (Fs = fs0 /\ touched = {})

\* C6: when resolution fails on a name the catalog does not hold, the names
\* reported are exactly the absent names among the requested names and those
\* their dependencies reach, no component file is written and the run exits
\* with code 1.
InvalidReportIsExact ==
    resolution = "invalid" =>
        /\ reported
        /\ {report[i] : i \in 1..Len(report)} = AbsentNames
        /\ files = fs0.files
        /\ pc = "exited" /\ exitCode = 1

\* C7: the run exits 1 on an unknown component, a missing working directory
\* and a configuration validation failure; a run that has ended has exit code
\* 0 exactly when it completed or nothing was selected; with a missing
\* working directory the run exits 1 at once: no configuration is loaded, no
\* prompt shown, nothing written.
ExitCodes ==
    /\ ended \in {"invalidComponent", "cwdMissing", "configInvalid"}
          => (pc = "exited" /\ exitCode = 1)
    /\ pc \in {"done", "exited"} => (exitCode = 0 <=> ended \in {"done", "noSelection"})
    /\ resolution = "invalid" => ended = "invalidComponent"
    /\ (fs0.configFile.state = "invalid" /\ pc \notin {"start", "getConfig"})
          => ended = "configInvalid"
    /\ ~cwdExists
          => /\ pc \in {"start", "exited"}
             /\ pc = "exited" => ended = "cwdMissing"
             /\ config = NullConfig /\ configPrompts = 0 /\ answer = "none"
             /\ selectedComponents = <<>> /\ log = <<>>
             /\ Fs = fs0 /\ touched = {}

MissingCwdExited ==
    ~cwdExists /\ pc = "exited" /\ exitCode = 1 /\ opts.components # <<>>

ResolvedListClosedNoDuplicates ==
    /\ resolution = "ok" =>
         /\ \A i, j \in 1..Len(componentsToWrite) :
              i # j => componentsToWrite[i] # componentsToWrite[j]
         /\ \A n \in Requested : InSeq(n, componentsToWrite)
         /\ \A i \in 1..Len(componentsToWrite) :
              /\ componentsToWrite[i] \in DOMAIN COMPONENTS
              /\ \A k \in 1..Len(COMPONENTS[componentsToWrite[i]].dependencies) :
                   InSeq(COMPONENTS[componentsToWrite[i]].dependencies[k], componentsToWrite)
         /\ \A i, j \in LogIdx :
              i # j => <<log[i].comp, log[i].idx>> # <<log[j].comp, log[j].idx>>
    /\ (resolution \in {"ok", "invalid"}) => (resolution = "ok" <=> AbsentNames = {})

ResolvedRepeatedRequest ==
    /\ resolution = "ok"
    /\ pc = "done"
    /\ Len(selectedComponents) = 2
    /\ selectedComponents[1] = selectedComponents[2]
    /\ \E i \in 1..Len(componentsToWrite) : componentsToWrite[i] \notin Requested
    /\ \A e \in 1..Len(ExpectedEntries) : e \in LogIdx /\ log[e].outcome = "written"


\* the dependencies a component declares, and the catalogs with a cycle
DepsOf(n) == {COMPONENTS[n].dependencies[k] : k \in 1..Len(COMPONENTS[n].dependencies)}

OnCycle(n) == n \in DOMAIN COMPONENTS /\ DepsOf(n) # {} /\ n \in Reach(DepsOf(n))

CyclicCatalog == \E n \in DOMAIN COMPONENTS : OnCycle(n)

\* C11: resolution ends for every catalog, with a cycle among the dependency
\* declarations too: the resolve step always has an outcome, and on a cyclic
\* catalog the resolved list holds each component the request reaches once
\* (a component met again is not listed or expanded again), is closed under
\* dependencies and is no longer than the catalog.
CyclicResolutionEnds ==
    /\ pc = "resolve" => ENABLED Resolve
    /\ (CyclicCatalog /\ resolution = "ok") =>
         /\ Len(componentsToWrite) <= Cardinality(DOMAIN COMPONENTS)
         /\ \A i, j \in 1..Len(componentsToWrite) :
              i # j => componentsToWrite[i] # componentsToWrite[j]
         /\ {componentsToWrite[i] : i \in 1..Len(componentsToWrite)} = Reach(Requested)
         /\ \A n \in Reach(Requested) : DepsOf(n) \subseteq Reach(Requested)

ResolvedAroundCycle ==
    /\ resolution = "ok"
    /\ pc = "done"
    /\ \E n \in Requested :
         /\ OnCycle(n)
         /\ DepsOf(n) # {n}
         /\ \A m \in DepsOf(n) : InSeq(m, componentsToWrite)
    /\ Len(log) = Len(ExpectedEntries)

\* C12: when the operator declines the confirmation of promptForConfig,
\* components.json is neither written nor modified and the run goes on to
\* selection and installation with the in-memory configuration, its paths
\* resolved; components.json changes only once the operator has confirmed.
DeclinedConfigNotPersisted ==
    /\ proceed = "no" =>
         /\ configFile = fs0.configFile
         /\ ConfigPath \notin touched
         /\ pc \notin {"start", "getConfig", "promptForConfig", "confirm"}
         /\ rawConfigSchema(config)
         /\ config = resolveConfigPaths(Cwd, config)
         /\ pc = "exited" => ended \in {"noSelection", "invalidComponent", "ioError"}
         /\ \A i \in LogIdx : IsPrefix(config.resolvedPaths.components, log[i].dest)
    /\ (configFile # fs0.configFile \/ ConfigPath \in touched) => proceed = "yes"
    /\ proceed # "none" => (configPrompts = 1 /\ fs0.configFile = AbsentFile)

InstalledWithUnsavedConfig ==
    /\ proceed = "no"
    /\ pc = "done"
    /\ configFile = AbsentFile
    /\ \E i \in LogIdx :
         /\ log[i].outcome = "written"
         /\ files[log[i].dest] = Rewritten(log[i])
         /\ IsPrefix(config.resolvedPaths.components, log[i].dest)

BeforeSelection == {"start", "getConfig", "promptForConfig", "confirm"}

\* C13: a run that finds no persisted configuration enters the creation path
\* exactly once, before anything is selected, resolved, created or written;
\* from selection on the configuration is the one that path produced and it
\* never changes, nor is it asked for again; a run that finds a persisted
\* configuration never enters the creation path.
ConfigCreatedOnce ==
    /\ [](/\ configPrompts <= 1
          /\ (cwdExists /\ fs0.configFile = AbsentFile /\ pc \notin {"start", "getConfig", "promptForConfig"})
                => configPrompts = 1
          /\ fs0.configFile # AbsentFile => configPrompts = 0
          /\ pc \in BeforeSelection
                => /\ selectedComponents = <<>> /\ resolution = "none" /\ log = <<>>
                   /\ dirs = fs0.dirs /\ files = fs0.files
          /\ (configPrompts = 1 /\ pc \notin BeforeSelection \cup {"exited"})
                => /\ rawConfigSchema(config)
                   /\ config = resolveConfigPaths(Cwd, config)
                   /\ proceed = "yes" => configFile = ValidFile([config EXCEPT !.resolvedPaths = NullConfig.resolvedPaths]))
    /\ [][(pc \notin BeforeSelection) => (config' = config /\ configPrompts' = configPrompts)]_vars

InstalledWithCreatedConfig ==
    /\ fs0.configFile = AbsentFile
    /\ configPrompts = 1
    /\ pc = "done"
    /\ config.aliases.components # DEFAULT_COMPONENTS
    /\ Len(log) >= 2
    /\ \A i \in LogIdx : log[i].outcome = "written" /\ files[log[i].dest] = Rewritten(log[i])

ResolvedRoot == config.resolvedPaths.components

\* the destinations and the directories of the file entries of the resolved set
ResolvedEntries ==
    UNION {{PathsFor(COMPONENTS[componentsToWrite[i]], config)[k] :
               k \in 1..Len(PathsFor(COMPONENTS[componentsToWrite[i]], config))} :
           i \in 1..Len(componentsToWrite)}

ResolvedDest == {TargetFile(config, e) : e \in ResolvedEntries}

ResolvedDirs == {TargetDir(config, e) : e \in ResolvedEntries}

\* what writeFiles created or wrote: everything touched but components.json
Installed == touched \ {ConfigPath}

\* C14 as stated: everything the installer writes or creates lies under
\* config.resolvedPaths.components, and every file written is the destination
\* of a file entry of a component of the resolved set.
InstallerStaysUnderRoot ==
    \A p \in Installed :
        /\ IsPrefix(ResolvedRoot, p)
        /\ p \in DOMAIN files => p \in ResolvedDest

\* C14 amended: every file the installer writes lies under
\* config.resolvedPaths.components and is the destination of a file entry of
\* a component of the resolved set; every directory it creates is the
\* directory of such an entry or one of the missing ancestors of it, which
\* are resolvedPaths.components, directories under it, and the missing
\* directories above resolvedPaths.components, down from the working
\* directory; nothing else is written or created.
InstallerWritesResolvedEntries ==
    \A p \in Installed :
        IF p \in DOMAIN files
        THEN /\ IsPrefix(ResolvedRoot, p)
             /\ p \in ResolvedDest
        ELSE /\ \E d \in ResolvedDirs : IsPrefix(p, d)
             /\ IsPrefix(ResolvedRoot, p) \/ (IsPrefix(p, ResolvedRoot) /\ IsPrefix(Cwd, p) /\ p \notin fs0.dirs)
             /\ p \in dirs

InstalledUnderNewRoot ==
    /\ pc = "done"
    /\ Cwd \o <<"src">> \in Installed
    /\ ResolvedRoot \in Installed
    /\ \E p \in Installed : p \in DOMAIN files /\ files[p].exists /\ IsPrefix(ResolvedRoot, p)
    /\ \E p \in Installed : p \notin DOMAIN files /\ p # ResolvedRoot /\ IsPrefix(ResolvedRoot, p)

InEntry == {"entry", "prompt", "copy"}

ChangedFiles == {d \in DOMAIN files : files'[d] # files[d]}

\* C15 as stated: the entries are processed in the order of the resolved list
\* and of each component's paths, and whenever an entry is being prompted
\* for, read or written, every earlier entry has been written or skipped.
EarlierEntriesWrittenOrSkipped ==
    resolution \in {"ok", "threw"} =>
        /\ \A i \in LogIdx : <<log[i].comp, log[i].idx>> = ExpectedEntries[i]
        /\ pc \in InEntry => \A i \in LogIdx : log[i].outcome \in {"written", "skipped"}

\* C15 amended: the entries are processed one at a time in the order of the
\* resolved list and of each component's paths; whenever an entry is being
\* prompted for, read or written, every earlier entry has ended (written,
\* skipped, or failed with its error handed to the error handler) and no
\* later entry has begun; a step touches the destination of the entry being
\* processed only, and a prompt is pending only for that entry.
InstallationIsSequential ==
    /\ [](resolution \in {"ok", "threw"} =>
            /\ Len(log) <= Len(ExpectedEntries)
            /\ \A i \in LogIdx :
                 /\ <<log[i].comp, log[i].idx>> = ExpectedEntries[i]
                 /\ log[i].outcome \in {"written", "skipped"} \cup IoFailures
            /\ pc \in InEntry
                 => /\ ci \in 1..Len(componentsToWrite) /\ fi \in 1..Len(CurPaths)
                    /\ <<componentsToWrite[ci], fi>> = ExpectedEntries[Len(log) + 1]
            /\ answer = "asked" <=> pc = "prompt")
    /\ [][/\ Len(log') <= Len(log) + 1
          /\ ChangedFiles # {} => (pc = "copy" /\ ChangedFiles = {CurFile})
          /\ Len(log') = Len(log) + 1
               => (pc \in InEntry /\ log'[Len(log')].dest = CurFile /\ log'[Len(log')].idx = fi)]_vars

InstalledInOrder ==
    /\ pc = "done"
    /\ Len(log) = 3
    /\ Len(componentsToWrite) = 2
    /\ log[1].comp = componentsToWrite[1] /\ log[1].idx = 1 /\ log[1].outcome = "skipped"
    /\ log[2].comp = componentsToWrite[1] /\ log[2].idx = 2 /\ log[2].outcome = "written"
    /\ log[3].comp = componentsToWrite[2] /\ log[3].idx = 1 /\ log[3].outcome = "written"

\* the entries of a component the platform mode selects, written out
VariantOf(name, platforms) ==
    LET paths == COMPONENTS[name].paths
    IN  IF paths.isArray THEN paths.list
        ELSE IF platforms = "universal" THEN paths.universal ELSE paths.nativeOnly

\* C16: every entry the run processes is an entry of the variant the
\* configuration's platform mode selects (universal for 'universal',
\* native-only otherwise), never one of the other variant, and what is
\* written comes from that entry's source; a component with a flat list has
\* the same entries under both modes; a run that completes has processed
\* each entry of the selected variant of each resolved component once.
SelectedVariantInstalled ==
    /\ \A i \in LogIdx :
         LET variant == VariantOf(log[i].comp, config.platforms)
         IN  /\ config.platforms \in PlatformModes
             /\ log[i].idx \in 1..Len(variant)
             /\ log[i].from = variant[log[i].idx].from
             /\ log[i].outcome = "written"
                  => log[i].after.files[log[i].dest].content
                        = RewrittenSources[variant[log[i].idx].from][config.aliases]
             /\ COMPONENTS[log[i].comp].paths.isArray
                  => VariantOf(log[i].comp, "universal") = VariantOf(log[i].comp, "native-only")
    /\ (pc = "done" /\ resolution = "ok") =>
         \A c \in 1..Len(componentsToWrite) :
             \A k \in 1..Len(VariantOf(componentsToWrite[c], config.platforms)) :
                 Cardinality({i \in LogIdx : log[i].comp = componentsToWrite[c] /\ log[i].idx = k}) = 1

NativeVariantInstalled ==
    /\ pc = "done"
    /\ config.platforms = "native-only"
    /\ \E i, j \in LogIdx :
         /\ ~COMPONENTS[log[i].comp].paths.isArray
         /\ log[i].from = COMPONENTS[log[i].comp].paths.nativeOnly[1].from
         /\ log[i].from # COMPONENTS[log[i].comp].paths.universal[1].from
         /\ log[i].outcome = "written"
         /\ COMPONENTS[log[j].comp].paths.isArray
         /\ log[j].outcome = "written"

FileFailures == {"readFailed", "writeFailed"}

\* C17: when the read or the write of an entry fails, the error goes to the
\* error handler (the run ends there with exit code 1, or goes on with the
\* next entry) and nothing written for earlier entries is rolled back or
\* removed: the failed entry changes no file but its own destination, removes
\* no directory, and every destination written earlier in the run still
\* holds what was written.
FailureKeepsEarlierWrites ==
    /\ \A i \in LogIdx :
         log[i].outcome \in FileFailures =>
            /\ faults >= 1
            /\ \A d \in DOMAIN files :
                 d # log[i].dest => log[i].after.files[d] = log[i].before.files[d]
            /\ log[i].before.dirs \subseteq log[i].after.dirs
            /\ log[i].after.configFile = log[i].before.configFile
            /\ log[i].outcome = "readFailed" => log[i].after.files = log[i].before.files
            /\ \A j \in 1..(i - 1) :
                 log[j].outcome = "written"
                    => /\ log[i].after.files[log[j].dest] = Rewritten(log[j])
                       /\ files[log[j].dest] = Rewritten(log[j])
            /\ (pc = "exited" /\ i = Len(log)) => (ended = "ioError" /\ exitCode = 1)
    /\ \A j \in LogIdx : log[j].outcome = "written" => log[j].dir \in dirs

FailedAfterEarlierWrite ==
    \E i, j \in LogIdx :
        /\ j < i
        /\ log[j].outcome = "written"
        /\ log[i].outcome \in FileFailures
        /\ files[log[j].dest] = Rewritten(log[j])
        /\ ~fs0.files[log[j].dest].exists

\* C18: an entry is prompted for exactly when --overwrite is not given and its
\* destination exists when the entry is processed; it is prompted for once
\* at most; without --overwrite an existing destination is replaced only
\* after the operator answered yes to the prompt of that entry.
PromptIffConflict ==
    /\ [](/\ \A i \in LogIdx :
               /\ log[i].prompted <=> (~opts.overwrite /\ log[i].before.files[log[i].dest].exists)
               /\ log[i].prompted <=> log[i].answer \in {"yes", "no"}
               /\ ( /\ ~opts.overwrite
                    /\ log[i].before.files[log[i].dest].exists
                    /\ log[i].after.files[log[i].dest] # log[i].before.files[log[i].dest] )
                      => log[i].answer = "yes"
          /\ \A i, j \in LogIdx :
               i # j => <<log[i].comp, log[i].idx>> # <<log[j].comp, log[j].idx>>
          /\ pc = "prompt" => (~opts.overwrite /\ files[CurFile].exists /\ answer = "asked")
          /\ pc = "copy" => (answer = "yes" <=> (~opts.overwrite /\ snap.files[CurFile].exists))
          /\ pc = "copy" => answer \in {"yes", "none"})
    /\ [][answer' = "asked" => (answer # "asked" /\ pc = "entry")]_vars
    /\ [][(pc = "prompt" /\ pc' # "prompt") => answer' \in {"yes", "no"}]_vars

ReplacedAfterYes ==
    /\ ~opts.overwrite
    /\ \E i, j \in LogIdx :
         /\ log[i].prompted /\ log[i].answer = "yes" /\ log[i].outcome = "written"
         /\ log[i].before.files[log[i].dest] = FileOf(OldText)
         /\ files[log[i].dest] = Rewritten(log[i])
         /\ ~log[j].prompted /\ log[j].outcome = "written"

\* C19: when the resolver throws anything but the invalid-component error,
\* the run goes on with an empty list of components: it writes no component
\* file, creates no directory, issues no invalid-component report, and comes
\* to the final report with exit code 0, never to an exit with code 1.
OtherResolverErrorContinues ==
    resolution = "threw" =>
        /\ faults >= 1
        /\ componentsToWrite = <<>>
        /\ ~reported
        /\ log = <<>>
        /\ Installed = {}
        /\ files = fs0.files /\ dirs = fs0.dirs
        /\ pc \in {"loop", "done"}
        /\ exitCode = 0
        /\ pc = "loop" => ENABLED Done
        /\ pc = "done" => ended = "done"

DoneAfterResolverError ==
    /\ resolution = "threw"
    /\ pc = "done"
    /\ exitCode = 0
    /\ selectedComponents # <<>>
    /\ componentsToWrite = <<>>

=============================================================================
